---- MODULE Spec2Model ----
(***************************************************************************)
(* The index endpoints of the Indexify server (src/src/server.rs):         *)
(* index_create, add_texts and index_search, run by concurrent request     *)
(* handlers over one IndexManager and one EmbeddingRouter.                 *)
(*                                                                         *)
(* The handlers are translated from server.rs.  The modules they call      *)
(* (index, embeddings, persistence, vectordbs, text_splitters: declared in *)
(* src/src/lib.rs, their files not part of src/) are modelled from the     *)
(* specification's sections 4 and 5.                                       *)
(***************************************************************************)
EXTENDS Integers, Sequences, FiniteSets, TLC

\* ------------------------------------------------------------------ bounds
\* Number of requests the server receives (one handler task per request).
NProcs == 3
\* Largest k of a search request.
MaxK == 2
\* Largest number of documents in one add request.
MaxDocs == 1

Procs == 1..NProcs

\* ------------------------------------------------------------- value sets
None == "None"

\* Strings are sequences of characters.
NL == "\n"
TextA == <<"a">>
TextB == <<"b">>
TextAB == <<"a", NL, NL, "b">>

IndexNames == {"docs"}
\* The models the EmbeddingRouter is configured with, and one it is not.
ConfiguredModels == {"default"}
ApiMetrics == {"dot", "cosine", "euclidean"}
ApiSplitters == {"None", "NewLine"}
HashOns == {None, <<"src">>}
Documents ==
  {[text |-> TextA, metadata |-> [src |-> <<"t", "1">>]],
   [text |-> TextAB, metadata |-> [src |-> <<"t", "1">>]],
   [text |-> TextAB, metadata |-> [src |-> <<"t", "2">>]]}
Queries == {TextA, TextB}

RECURSIVE SeqsUpTo(_, _)
SeqsUpTo(S, n) ==
  IF n = 0 THEN {<<>>}
  ELSE LET shorter == SeqsUpTo(S, n - 1)
       IN shorter \cup {Append(s, x) : s \in {t \in shorter : Len(t) = n - 1}, x \in S}

IndexCreateRequest ==
  [name : IndexNames, embedding_model : ConfiguredModels, metric : ApiMetrics,
   text_splitter : ApiSplitters, hash_on : HashOns]
  \cup [name : IndexNames, embedding_model : {"does-not-exist"}, metric : {"cosine"},
        text_splitter : {"None"}, hash_on : {None}]
AddTextsRequest ==
  [index : IndexNames, documents : SeqsUpTo(Documents, MaxDocs) \ {<<>>}]
SearchRequest == [index : IndexNames, query : Queries, k : 1..MaxK]

\* StatusCode
OK == 200
BAD_REQUEST == 400
INTERNAL_SERVER_ERROR == 500

Min(a, b) == IF a < b THEN a ELSE b

\* ------------------------------------------------------------ TextSplitter
\* The pieces of text between the occurrences of sep, in order.
RECURSIVE SplitOn(_, _)
SplitOn(text, sep) ==
  IF \A i \in 1..Len(text) : text[i] # sep THEN <<text>>
  ELSE LET i == CHOOSE i \in 1..Len(text) :
                  text[i] = sep /\ \A j \in 1..(i - 1) : text[j] # sep
       IN <<SubSeq(text, 1, i - 1)>> \o SplitOn(SubSeq(text, i + 1, Len(text)), sep)

NonEmpty(piece) == piece # <<>>

\* split(text, strategy): None keeps the text whole, NewLine splits on line
\* boundaries and drops the empty lines.
split(text, strategy) ==
  IF strategy = "NewLine" THEN SelectSeq(SplitOn(text, NL), NonEmpty) ELSE <<text>>

\* ApiTextSplitterKind's strum Display (snake_case), read back by
\* TextSplitterKind::from_str.
to_string(api_splitter) ==
  CASE api_splitter = "None" -> "none"
    [] api_splitter = "NewLine" -> "new_line"

from_str(s) ==
  CASE s = "none" -> "None"
    [] s = "new_line" -> "NewLine"

\* --------------------------------------------------------- EmbeddingRouter
list_models == ConfiguredModels

\* dimensions(model_name): the model's vector length, or UnknownModel.
dimensions(model_name) ==
  IF model_name \in list_models
  THEN [ok |-> TRUE, dim |-> 2, err |-> None]
  ELSE [ok |-> FALSE, dim |-> 0, err |-> "UnknownModel"]

Count(text, c) == Cardinality({i \in 1..Len(text) : text[i] = c})

\* The provider behind the router: a deterministic bag-of-characters model,
\* one component per letter.  A misbehaving provider returns one component
\* too many.
Alphabet == <<"a", "b", "t">>
Embed(text, len) == [i \in 1..len |-> 1 + Count(text, Alphabet[i])]

\* generate_embeddings(texts, model_name): one vector per text, in order;
\* outcome is the provider's: "ok", "fail" (no result) or "badlen".
generate_embeddings(texts, model_name, outcome) ==
  LET d == dimensions(model_name) IN
  IF ~d.ok THEN [ok |-> FALSE, vectors |-> <<>>, err |-> "UnknownModel"]
  ELSE IF outcome = "fail" THEN [ok |-> FALSE, vectors |-> <<>>, err |-> "BackendError"]
  ELSE [ok |-> TRUE, err |-> None,
        vectors |-> [i \in 1..Len(texts) |->
                       Embed(texts[i], IF outcome = "badlen" THEN d.dim + 1 ELSE d.dim)]]

\* ------------------------------------------------------------- VectorStore
DotProduct(u, v) ==
  LET RECURSIVE Sum(_)
      Sum(i) == IF i = 0 THEN 0 ELSE u[i] * v[i] + Sum(i - 1)
  IN Sum(Len(u))

\* The squared L2 distance: it orders vectors as the L2 distance does.
EuclideanSq(u, v) ==
  LET RECURSIVE Sum(_)
      Sum(i) == IF i = 0 THEN 0 ELSE (u[i] - v[i]) * (u[i] - v[i]) + Sum(i - 1)
  IN Sum(Len(u))

\* u is at least as good a match for q as v.  Cosine compares
\* (u.q)/|u| with (v.q)/|v| by their squares, which is exact for the
\* vectors of non-negative components the provider returns.
AtLeastAsGood(metric, q, u, v) ==
  CASE metric = "Dot" -> DotProduct(u, q) >= DotProduct(v, q)
    [] metric = "Cosine" ->
         DotProduct(u, q) * DotProduct(u, q) * DotProduct(v, v)
           >= DotProduct(v, q) * DotProduct(v, q) * DotProduct(u, u)
    [] metric = "Euclidean" -> EuclideanSq(u, q) <= EuclideanSq(v, q)

\* Variant with a fault: an insert that keeps the record of the same key.
upsert_append(records, r) == records \cup {r}

\* upsert(dedup_key, vector, metadata, text): replaces the record of that key.
upsert(records, r) == {s \in records : s.dedup_key # r.dedup_key} \cup {r}

\* The batch of one add_texts call, applied in order; a backend failure at
\* record fail_at (0: none) aborts the batch and leaves the records as they were.
RECURSIVE UpsertPrefix(_, _, _)
UpsertPrefix(records, batch, n) ==
  IF n = 0 THEN records ELSE upsert(UpsertPrefix(records, batch, n - 1), batch[n])

upsert_batch(records, batch, fail_at) ==
  IF fail_at = 0
  THEN [ok |-> TRUE, records |-> UpsertPrefix(records, batch, Len(batch))]
  ELSE [ok |-> FALSE, records |-> records]

\* query(vector, k): the k best records, best first; ties in the backend's
\* iteration order.
RECURSIVE Ranked(_, _, _)
Ranked(records, metric, q) ==
  IF records = {} THEN <<>>
  ELSE LET best == CHOOSE r \in records :
                     \A s \in records : AtLeastAsGood(metric, q, r.vector, s.vector)
       IN <<best>> \o Ranked(records \ {best}, metric, q)

query(records, metric, q, k) ==
  LET ranked == Ranked(records, metric, q)
  IN SubSeq(ranked, 1, Min(k, Len(ranked)))

\* ------------------------------------------------------------ IndexManager
CharCodes == <<"a", "b", "t", "1", "2", NL>>
Code(c) == CHOOSE i \in 1..Len(CharCodes) : CharCodes[i] = c

\* A 16-bit polynomial hash of a sequence of strings, a separator after each.
RECURSIVE HashChars(_, _)
HashChars(h, str) ==
  IF str = <<>> THEN h
  ELSE HashChars((h * 31 + Code(Head(str))) % 65536, Tail(str))

RECURSIVE Hash(_, _)
Hash(h, values) ==
  IF values = <<>> THEN h
  ELSE Hash((HashChars(h, Head(values)) * 31) % 65536, Tail(values))

\* The dedup key of a fragment: a hash of the values of the index's
\* unique_params in the fragment's metadata, or of the fragment's text when
\* the index has none.  A field the metadata lacks counts as empty.
FieldValue(metadata, field) ==
  IF field \in DOMAIN metadata THEN metadata[field] ELSE <<>>

dedup_key(text, metadata, unique_params) ==
  IF unique_params = None THEN Hash(7, <<text>>)
  ELSE Hash(7, [i \in 1..Len(unique_params) |-> FieldValue(metadata, unique_params[i])])

\* load(name): the IndexRecord of that name, or None.
Exists(table, name) == \E i \in 1..Len(table) : table[i].name = name
load(table, name) ==
  table[CHOOSE i \in 1..Len(table) :
          table[i].name = name /\ \A j \in 1..(i - 1) : table[j].name # name]

\* create_index(params, embedding_model, splitter): one atomic
\* insert-if-absent on the IndexRecord table.
create_index(table, index_params, embedding_model, splitter_kind, backend) ==
  IF backend = "fail" THEN [ok |-> FALSE, err |-> "BackendError", table |-> table]
  ELSE IF Exists(table, index_params.name)
  THEN [ok |-> FALSE, err |-> "IndexAlreadyExists", table |-> table]
  ELSE [ok |-> TRUE, err |-> None,
        table |-> Append(table,
                    [name |-> index_params.name,
                     embedding_model |-> embedding_model,
                     vector_dim |-> index_params.vector_dim,
                     metric |-> index_params.metric,
                     splitter |-> splitter_kind,
                     unique_params |-> index_params.unique_params])]

\* The fragments of the texts of one add_texts call, in order, each with its
\* document's metadata and its dedup key.
RECURSIVE Flatten(_)
Flatten(seqs) == IF seqs = <<>> THEN <<>> ELSE Head(seqs) \o Flatten(Tail(seqs))

FragmentsOf(t, index) ==
  LET pieces == Flatten([i \in 1..Len(t.texts) |-> split(t.texts[i], index.splitter)])
  IN [i \in 1..Len(pieces) |->
        [text |-> pieces[i], metadata |-> t.metadata,
         dedup_key |-> dedup_key(pieces[i], t.metadata, index.unique_params)]]

Fragments(texts, index) == Flatten([i \in 1..Len(texts) |-> FragmentsOf(texts[i], index)])

\* The VectorRecords of the fragments and their vectors.
VectorRecords(fragments, vectors) ==
  [i \in 1..Len(fragments) |->
     [dedup_key |-> fragments[i].dedup_key, vector |-> vectors[i],
      metadata |-> fragments[i].metadata, text |-> fragments[i].text]]

\* Index.add_texts up to the upsert: the batched embedding call and the
\* check of every vector's length.
embed_fragments(fragments, index, outcome) ==
  LET e == generate_embeddings([i \in 1..Len(fragments) |-> fragments[i].text],
                               index.embedding_model, outcome)
  IN IF ~e.ok THEN [ok |-> FALSE, err |-> "EmbeddingFailure", batch |-> <<>>]
     ELSE IF \E i \in 1..Len(e.vectors) : Len(e.vectors[i]) # index.vector_dim
     THEN [ok |-> FALSE, err |-> "DimensionMismatch", batch |-> <<>>]
     ELSE [ok |-> TRUE, err |-> None, batch |-> VectorRecords(fragments, e.vectors)]

\* Index.search once the query is embedded: the backend's ranked records as
\* texts with their metadata.
search(records, index, qvec, k) ==
  LET hits == query(records, index.metric, qvec, k)
  IN [i \in 1..Len(hits) |-> [texts |-> hits[i].text, metadata |-> hits[i].metadata]]

\* ------------------------------------------------------------------- state
VARIABLES
  table,  \* the persisted IndexRecord table: a sequence of rows
  store,  \* the VectorRecords of each index's backend
  pc,     \* where each request's handler stands
  req,    \* each request, once received
  resp    \* each request's response, once sent

vars == <<table, store, pc, req, resp>>

NoRequest == [kind |-> "none"]
NoResponse == [status |-> 0, errors |-> <<>>, results |-> <<>>]

\* Server::run builds the IndexManager before it serves: the handlers' state
\* always holds one.
index_manager_is_none == FALSE

Init ==
  /\ table = <<>>
  /\ store = [n \in IndexNames |-> {}]
  /\ pc = [p \in Procs |-> "idle"]
  /\ req = [p \in Procs |-> NoRequest]
  /\ resp = [p \in Procs |-> NoResponse]

Response(status, errors, results) ==
  [status |-> status, errors |-> errors, results |-> results]

NotConfigured ==
  Response(BAD_REQUEST, <<"server is not configured to have indexes">>, <<>>)

Respond(p, r) ==
  /\ resp' = [resp EXCEPT ![p] = r]
  /\ pc' = [pc EXCEPT ![p] = "done"]

Goto(p, label) ==
  /\ pc' = [pc EXCEPT ![p] = label]
  /\ UNCHANGED resp

\* Request p arrives: requests are numbered in their order of arrival.
Receive(p, kind, payload) ==
  /\ pc[p] = "idle"
  /\ \A q \in 1..(p - 1) : pc[q] # "idle"
  /\ req' = [req EXCEPT ![p] = [kind |-> kind, payload |-> payload]]

\* ------------------------------------------------------------ index_create
MetricKind(metric) ==
  CASE metric = "cosine" -> "Cosine"
    [] metric = "dot" -> "Dot"
    [] metric = "euclidean" -> "Euclidean"

\* Variant with a fault: a fixed dimension instead of the router's.
CreateIndexParams_fixed_dim(payload, vector_dim) ==
  [name |-> payload.name, vector_dim |-> 384,
   metric |-> MetricKind(payload.metric), unique_params |-> payload.hash_on]

CreateIndexParams(payload, vector_dim) ==
  [name |-> payload.name, vector_dim |-> vector_dim,
   metric |-> MetricKind(payload.metric), unique_params |-> payload.hash_on]

\* Variant with a fault: the result of create_index is not looked at.
index_create_response_ok(result) == Response(OK, <<>>, <<>>)

index_create_response(result) ==
  IF ~result.ok THEN Response(INTERNAL_SERVER_ERROR, <<result.err>>, <<>>)
  ELSE Response(OK, <<>>, <<>>)

\* Variant with a fault: no early return on the router's error.
index_create_dim_no_return(p) ==
  /\ \E payload \in IndexCreateRequest :
       /\ Receive(p, "create", payload)
       /\ Goto(p, "create_index")
  /\ UNCHANGED <<table, store>>

\* The handler up to the model's dimensions.
index_create_dim(p) ==
  /\ \E payload \in IndexCreateRequest :
       /\ Receive(p, "create", payload)
       /\ IF index_manager_is_none THEN Respond(p, NotConfigured)
          ELSE LET try_dim == dimensions(payload.embedding_model)
               IN IF ~try_dim.ok
                  THEN Respond(p, Response(BAD_REQUEST, <<try_dim.err>>, <<>>))
                  ELSE Goto(p, "create_index")
  /\ UNCHANGED <<table, store>>

\* The call of IndexManager::create_index and the response.  try_dim is the
\* value index_create_dim looked up: the router's configuration is fixed.
index_create_call(p) ==
  /\ pc[p] = "create_index"
  /\ \E backend \in {"ok", "fail"} :
       LET payload == req[p].payload
           try_dim == dimensions(payload.embedding_model)
           index_params == CreateIndexParams(payload, try_dim.dim)
           splitter_kind == from_str(to_string(payload.text_splitter))
           result == create_index(table, index_params, payload.embedding_model,
                                  splitter_kind, backend)
       IN /\ table' = result.table
          /\ Respond(p, index_create_response(result))
  /\ UNCHANGED <<store, req>>

\* Variant with a fault: the documents' metadata is left behind.
to_texts_no_metadata(documents) ==
  [i \in 1..Len(documents) |->
     [texts |-> <<documents[i].text>>, metadata |-> [f \in {} |-> <<>>]]]

\* --------------------------------------------------------------- add_texts
to_texts(documents) ==
  [i \in 1..Len(documents) |->
     [texts |-> <<documents[i].text>>, metadata |-> documents[i].metadata]]

\* Variant with a fault: the result of add_texts is not looked at.
add_texts_response_ok(result) == Response(OK, <<>>, <<>>)

add_texts_response(result) ==
  IF ~result.ok THEN Response(BAD_REQUEST, <<result.err>>, <<>>)
  ELSE Response(OK, <<>>, <<>>)

\* The handler up to the loaded index.
load_response(backend, found) ==
  IF backend = "fail" THEN Response(INTERNAL_SERVER_ERROR, <<"BackendError">>, <<>>)
  ELSE IF ~found THEN Response(BAD_REQUEST, <<"index does not exist">>, <<>>)
  ELSE NoResponse

add_texts_load(p) ==
  /\ \E payload \in AddTextsRequest, backend \in {"ok", "fail"} :
       /\ Receive(p, "add", payload)
       /\ IF index_manager_is_none THEN Respond(p, NotConfigured)
          ELSE LET r == load_response(backend, Exists(table, payload.index))
               IN IF r # NoResponse THEN Respond(p, r) ELSE Goto(p, "add_embed")
  /\ UNCHANGED <<table, store>>

\* The batch of request p: the records Index.add_texts upserts.  The handler's
\* index is the record load returned; records are never rewritten, so it is
\* the table's record of that name at every later step.
BatchOf(p) ==
  LET index == load(table, req[p].payload.index)
  IN embed_fragments(Fragments(to_texts(req[p].payload.documents), index), index, "ok").batch

\* Index.add_texts: the batched embedding call.
add_texts_embed(p) ==
  /\ pc[p] = "add_embed"
  /\ \E outcome \in {"ok", "fail", "badlen"} :
       LET index == load(table, req[p].payload.index)
           texts == to_texts(req[p].payload.documents)
           result == embed_fragments(Fragments(texts, index), index, outcome)
       IN IF ~result.ok THEN Respond(p, add_texts_response(result))
          ELSE Goto(p, "add_upsert")
  /\ UNCHANGED <<table, store, req>>

\* Index.add_texts: the upsert of the batch, and the response.
add_texts_upsert(p) ==
  /\ pc[p] = "add_upsert"
  /\ LET name == req[p].payload.index
         batch == BatchOf(p)
     IN \E fail_at \in 0..Len(batch) :
          LET done == upsert_batch(store[name], batch, fail_at)
              result == [ok |-> done.ok, err |-> IF done.ok THEN None ELSE "BackendError"]
          IN /\ store' = [store EXCEPT ![name] = done.records]
             /\ Respond(p, add_texts_response(result))
  /\ UNCHANGED <<table, req>>

\* Variant with a fault: the results in reverse.
document_fragments_rev(results) ==
  [i \in 1..Len(results) |->
     [text |-> results[Len(results) + 1 - i].texts,
      metadata |-> results[Len(results) + 1 - i].metadata]]

\* ------------------------------------------------------------ index_search
document_fragments(results) ==
  [i \in 1..Len(results) |-> [text |-> results[i].texts, metadata |-> results[i].metadata]]

index_search_response(results) ==
  IF ~results.ok THEN Response(INTERNAL_SERVER_ERROR, <<results.err>>, <<>>)
  ELSE Response(OK, <<>>, document_fragments(results.texts))

\* Variant with a fault: an index that is not there is created.
index_search_load_or_create(p) ==
  /\ \E payload \in SearchRequest, backend \in {"ok", "fail"} :
       /\ Receive(p, "search", payload)
       /\ IF backend = "fail"
          THEN Respond(p, load_response(backend, FALSE)) /\ table' = table
          ELSE /\ Goto(p, "search_embed")
               /\ table' = IF Exists(table, payload.index) THEN table
                           ELSE Append(table,
                                  [name |-> payload.index, embedding_model |-> "default",
                                   vector_dim |-> 2, metric |-> "Cosine",
                                   splitter |-> "NewLine", unique_params |-> None])
  /\ UNCHANGED store

index_search_load(p) ==
  /\ \E payload \in SearchRequest, backend \in {"ok", "fail"} :
       /\ Receive(p, "search", payload)
       /\ IF index_manager_is_none THEN Respond(p, NotConfigured)
          ELSE LET r == load_response(backend, Exists(table, payload.index))
               IN IF r # NoResponse THEN Respond(p, r) ELSE Goto(p, "search_embed")
  /\ UNCHANGED <<table, store>>

\* Index.search: the embedding of the query.
index_search_embed(p) ==
  /\ pc[p] = "search_embed"
  /\ \E outcome \in {"ok", "fail"} :
       LET index == load(table, req[p].payload.index)
           e == generate_embeddings(<<req[p].payload.query>>, index.embedding_model, outcome)
       IN IF ~e.ok
          THEN Respond(p, index_search_response([ok |-> FALSE, err |-> "EmbeddingFailure"]))
          ELSE Goto(p, "search_query")
  /\ UNCHANGED <<table, store, req>>

\* The query vector of search request p.
QueryVector(p) ==
  LET index == load(table, req[p].payload.index)
  IN generate_embeddings(<<req[p].payload.query>>, index.embedding_model, "ok").vectors[1]

\* Index.search: the backend's query, and the response.
index_search_query(p) ==
  /\ pc[p] = "search_query"
  /\ \E backend \in {"ok", "fail"} :
       LET payload == req[p].payload
           index == load(table, payload.index)
           results ==
             IF backend = "fail" THEN [ok |-> FALSE, err |-> "BackendError"]
             ELSE [ok |-> TRUE, err |-> None,
                   texts |-> search(store[payload.index], index, QueryVector(p), payload.k)]
       IN Respond(p, index_search_response(results))
  /\ UNCHANGED <<table, store, req>>

\* ----------------------------------------------------------- specification
Next ==
  \E p \in Procs :
    \/ index_create_dim(p)
    \/ index_create_call(p)
    \/ add_texts_load(p)
    \/ add_texts_embed(p)
    \/ add_texts_upsert(p)
    \/ index_search_load(p)
    \/ index_search_embed(p)
    \/ index_search_query(p)

Spec == Init /\ [][Next]_vars

\* ------------------------------------------------------------------ claims
Done(p) == pc[p] = "done"
Succeeded(p) == Done(p) /\ resp[p].status = OK
FailedWith(p, err) == Done(p) /\ resp[p].errors = <<err>>
Creates == {p \in Procs : req[p].kind = "create"}
Adds == {p \in Procs : req[p].kind = "add"}
Searches == {p \in Procs : req[p].kind = "search"}
IsClientError(status) == status \in 400..499
IsServerError(status) == status \in 500..599

\* The requests that take a step in the current transition.
Stepping(S) == {p \in Procs : pc'[p] # pc[p] /\ req'[p].kind \in S}

\* The VectorRecords the documents of a request are to leave in an index, in
\* fragment order, from the documents themselves.
ExpectedOfDocument(d, index) ==
  LET pieces == split(d.text, index.splitter)
  IN [i \in 1..Len(pieces) |->
        [dedup_key |-> dedup_key(pieces[i], d.metadata, index.unique_params),
         vector |-> Embed(pieces[i], index.vector_dim),
         metadata |-> d.metadata, text |-> pieces[i]]]

Expected(p) ==
  LET index == load(table, req[p].payload.index)
      docs == req[p].payload.documents
  IN Flatten([i \in 1..Len(docs) |-> ExpectedOfDocument(docs[i], index)])

Keys(batch) == {batch[i].dedup_key : i \in 1..Len(batch)}
\* The record a batch leaves for each of its keys: the last one of that key.
LastOfKey(batch) ==
  {batch[i] : i \in {i \in 1..Len(batch) :
                       \A j \in (i + 1)..Len(batch) : batch[j].dedup_key # batch[i].dedup_key}}
WithKey(records, k) == {r \in records : r.dedup_key = k}
\* Adds that reached the index: every one of them found it.
OnIndex(p) == Exists(table, req[p].payload.index)

\* The create_index calls for name n that reached the insert.
C1_Reached(n) ==
  {p \in Creates : /\ Done(p)
                   /\ req[p].payload.name = n
                   /\ ~FailedWith(p, "UnknownModel")
                   /\ ~FailedWith(p, "BackendError")}

\* C1: of the create_index calls for one name that reach the insert, exactly
\* one succeeds and every other fails with IndexAlreadyExists; the table never
\* holds two records of one name.
C1_OneCreatorWins ==
  /\ \A i, j \in 1..Len(table) : table[i].name = table[j].name => i = j
  /\ \A n \in IndexNames :
       C1_Reached(n) # {} =>
         /\ Cardinality({p \in C1_Reached(n) : Succeeded(p)}) = 1
         /\ \A p \in C1_Reached(n) : Succeeded(p) \/ FailedWith(p, "IndexAlreadyExists")

\* Two creates of one name that overlapped: the first to arrive lost the insert
\* to the second.
C1_Witness ==
  \E p, q \in Creates :
    /\ p < q
    /\ req[p].payload.name = req[q].payload.name
    /\ FailedWith(p, "IndexAlreadyExists")
    /\ Succeeded(q)

\* Every add_texts call that succeeded on p's index had p's documents.
C2_SameDocuments(p) ==
  \A q \in Adds : (Succeeded(q) /\ req[q].payload.index = req[p].payload.index)
                    => req[q].payload.documents = req[p].payload.documents

C3_UnknownModel(p) ==
  req[p].kind = "create" /\ req[p].payload.embedding_model \notin list_models

C3_UnknownModelInv ==
  /\ \A p \in Procs :
       C3_UnknownModel(p) =>
         /\ pc[p] = "done"
         /\ resp[p].errors = <<"UnknownModel">>
         /\ resp[p].status # OK
  /\ \A i \in 1..Len(table) : table[i].embedding_model \in list_models

C3_UnknownModelStep ==
  (\E p \in Procs : /\ pc'[p] # pc[p]
                    /\ req'[p].kind = "create"
                    /\ req'[p].payload.embedding_model \notin list_models)
    => (table' = table /\ store' = store)

\* C3: a create with a model the router does not know answers UnknownModel,
\* never reaches create_index, and leaves the table and the stores as they were.
C3_UnknownModelRejected == []C3_UnknownModelInv /\ [][C3_UnknownModelStep]_vars

\* An unknown-model create answered while an index exists.
C3_Witness ==
  \E p \in Procs :
    /\ C3_UnknownModel(p)
    /\ FailedWith(p, "UnknownModel")
    /\ resp[p].status = BAD_REQUEST
    /\ Len(table) = 1

\* A step of an add_texts call stores its whole batch when the call succeeds
\* with it, and nothing otherwise.
C4_AllOrNothingStep ==
  \A p \in Stepping({"add"}) :
    IF pc'[p] = "done" /\ resp'[p].status = OK
    THEN /\ LastOfKey(Expected(p)) \subseteq store'[req[p].payload.index]
         /\ \A r \in store'[req[p].payload.index] :
              r \in LastOfKey(Expected(p)) \/ r \in store[req[p].payload.index]
    ELSE store' = store

\* Beside a failed call, the index holds only what succeeded calls stored.
C4_FailedLeavesNothing ==
  \A p \in Adds :
    (Done(p) /\ ~Succeeded(p) /\ OnIndex(p)) =>
      \A r \in store[req[p].payload.index] :
        \E q \in Adds : /\ Succeeded(q)
                        /\ req[q].payload.index = req[p].payload.index
                        /\ r \in LastOfKey(Expected(q))

C5_DimInv ==
  \A i \in 1..Len(table) :
    /\ dimensions(table[i].embedding_model).ok
    /\ table[i].vector_dim = dimensions(table[i].embedding_model).dim
    /\ \A r \in store[table[i].name] : Len(r.vector) = table[i].vector_dim

C5_RecordFixedStep ==
  /\ Len(table') >= Len(table)
  /\ \A i \in 1..Len(table) : table'[i] = table[i]

\* C5: an index's vector_dim is the router's dimensions of its model, its
\* record never changes, and every vector stored in it has that length.
C5_VectorDimFixed == []C5_DimInv /\ [][C5_RecordFixedStep]_vars

\* An index that refused the vectors of a wrong length and stored those of
\* the right one.
C5_Witness ==
  \E p, q \in Adds :
    /\ FailedWith(p, "DimensionMismatch")
    /\ Succeeded(q)
    /\ req[p].payload.index = req[q].payload.index
    /\ store[req[q].payload.index] # {}

\* Fragment text a is ranked no later than b for query vector q: descending
\* inner product for Dot, descending cosine for Cosine (compared by the
\* squares, the inner products not being negative), ascending distance for
\* Euclidean.
C6_InOrder(metric, q, a, b) ==
  CASE metric = "Dot" -> DotProduct(a, q) >= DotProduct(b, q)
    [] metric = "Cosine" ->
         /\ DotProduct(a, q) >= 0 /\ DotProduct(b, q) >= 0
         /\ DotProduct(a, q) * DotProduct(a, q) * DotProduct(b, b)
              >= DotProduct(b, q) * DotProduct(b, q) * DotProduct(a, a)
    [] metric = "Euclidean" -> EuclideanSq(a, q) <= EuclideanSq(b, q)

\* The results of search p are best first under its index's metric.
C6_Sorted(p) ==
  LET index == load(table, req[p].payload.index)
      q == Embed(req[p].payload.query, index.vector_dim)
      results == resp[p].results
  IN \A i, j \in 1..Len(results) :
       i < j => C6_InOrder(index.metric, q,
                           Embed(results[i].text, index.vector_dim),
                           Embed(results[j].text, index.vector_dim))

C6_SortedInv ==
  \A p \in Searches :
    Succeeded(p) => (Len(resp[p].results) <= req[p].payload.k /\ C6_Sorted(p))

C6_CountStep ==
  \A p \in Stepping({"search"}) :
    (pc'[p] = "done" /\ resp'[p].status = OK) =>
      Len(resp'[p].results)
        = Min(req[p].payload.k, Cardinality(store[req[p].payload.index]))

\* C6: a search with k >= 1 answers min(k, number of stored records) results,
\* at most k, best first under the index's metric.
C6_TopK == []C6_SortedInv /\ [][C6_CountStep]_vars

\* A Euclidean search that answered two results, the first strictly nearer.
C6_Witness ==
  \E p \in Searches :
    /\ Succeeded(p)
    /\ Len(resp[p].results) = 2
    /\ LET index == load(table, req[p].payload.index)
           q == Embed(req[p].payload.query, index.vector_dim)
       IN /\ index.metric = "Euclidean"
          /\ EuclideanSq(Embed(resp[p].results[1].text, index.vector_dim), q)
               < EuclideanSq(Embed(resp[p].results[2].text, index.vector_dim), q)

IngestionFailures == {"EmbeddingFailure", "DimensionMismatch", "BackendError"}

\* C7: an Add request for an index that does not exist and one whose
\* ingestion fails are never answered with the same status.
C7_NotFoundDistinctFromIngestion ==
  \A p, q \in Adds :
    (/\ FailedWith(p, "index does not exist")
     /\ Done(q) /\ OnIndex(q) /\ Len(resp[q].errors) = 1
     /\ resp[q].errors[1] \in IngestionFailures)
      => resp[p].status # resp[q].status

ValidationFailures == {"UnknownModel", "InvalidSplitterPattern", "IndexAlreadyExists"}

\* C8: a Create request's validation failures are answered with a
\* client-error status, and only backend failures with a server-error status.
C8_ValidationIsClientError ==
  \A p \in Creates :
    (Done(p) /\ ~Succeeded(p)) =>
      /\ resp[p].errors[1] \in ValidationFailures => IsClientError(resp[p].status)
      /\ IsServerError(resp[p].status) => resp[p].errors[1] = "BackendError"

C9_OnePerKeyInv ==
  /\ \A n \in IndexNames : \A r, s \in store[n] : r.dedup_key = s.dedup_key => r = s
  /\ \A p \in Adds :
       Succeeded(p) =>
         \A k \in Keys(Expected(p)) :
           /\ Cardinality(WithKey(store[req[p].payload.index], k)) = 1
           /\ \A r \in WithKey(store[req[p].payload.index], k) :
                \E q \in Adds : /\ Succeeded(q)
                                /\ req[q].payload.index = req[p].payload.index
                                /\ r \in LastOfKey(Expected(q))

C9_LastWriterStep ==
  \A p \in Stepping({"add"}) :
    (pc'[p] = "done" /\ resp'[p].status = OK) =>
      LET n == req[p].payload.index
          mine == Keys(Expected(p))
      IN /\ \A k \in mine : WithKey(store'[n], k) = WithKey(LastOfKey(Expected(p)), k)
         /\ \A k \in {r.dedup_key : r \in store[n] \cup store'[n]} \ mine :
              WithKey(store'[n], k) = WithKey(store[n], k)
         /\ \A m \in IndexNames \ {n} : store'[m] = store[m]

\* C9: add_texts calls that upsert one dedup key leave exactly one
\* VectorRecord of that key, the whole of it written by one call; the call
\* that writes leaves its own record for each of its keys and the records of
\* every other key as they were.
C9_LinearizablePerKey == []C9_OnePerKeyInv /\ [][C9_LastWriterStep]_vars

\* Two calls that overlapped on one key with different records: the first to
\* arrive wrote last, and its record is the one stored.
C9_Witness ==
  \E p, q \in Adds :
    /\ p < q
    /\ Succeeded(p) /\ Succeeded(q)
    /\ req[p].payload.index = req[q].payload.index
    /\ Keys(Expected(p)) = Keys(Expected(q))
    /\ LastOfKey(Expected(p)) # LastOfKey(Expected(q))
    /\ store[req[p].payload.index] = LastOfKey(Expected(p))

C10_ReadOnlyStep ==
  Stepping({"search"}) # {} => (table' = table /\ store' = store)

\* C10: no step of a search request changes the IndexRecord table or any
\* index's VectorRecords.
C10_SearchReadOnly == [][C10_ReadOnlyStep]_vars

\* A search answered while an add_texts call is at its upsert.
C10_Witness ==
  \E p \in Searches, q \in Adds :
    /\ Succeeded(p)
    /\ pc[q] = "add_upsert"
    /\ Len(table) = 1
====
